---- MODULE Spec2Model ----
(***************************************************************************)
(* The notebook session state of the Notebook component                    *)
(* (src/unnamed/part_001, lines 598-717): the cell list, the active cell,  *)
(* the notification queue and the pending setTimeout callbacks, with one   *)
(* action per operation of the NotebookContext facade.                     *)
(*                                                                         *)
(* A cell is a record whose optional TypeScript fields are present only    *)
(* when the code has set them (an absent field is undefined).  A state     *)
(* update setX(prev => f(prev)) is applied in the action that issues it:   *)
(* every handler runs to completion on the single UI thread and all of     *)
(* them use functional updaters.  The only value a handler reads from its  *)
(* render closure is `cells` in executeCell (line 636); the closure is the *)
(* render that precedes the event, so it is the cell list of the state in  *)
(* which the call is made.                                                 *)
(***************************************************************************)
EXTENDS Integers, Sequences, FiniteSets, TLC

\* Bounds of the model: the number of facade calls in one behaviour, and in
\* one behaviour of the specification with fairness.
MaxCalls == 3
MaxFairCalls == 2

\* setTimeout delays (ms) and the mocked duration, as written in the source.
ExecDelayMs == 800
DismissDelayMs == 5000
DurationMs == 450
\* executionCount of the initial code cell.
InitialExecutionCount == 1

VARIABLES
    cells,          \* useState<EnhancedCell[]>, line 599
    activeCellId,   \* useState<string | null>, line 606
    notifications,  \* useState<Notification[]>, line 612
    activeSidebarPanel, \* useState<'outline' | 'variables' | 'files' | 'plugins'>, line 616
    timers,         \* pending setTimeout callbacks, in the order they were scheduled
    idCounter,      \* number of identifiers generated so far
    calls,          \* number of facade calls made so far
    lastOp          \* history: the call or callback that produced this state

vars == <<cells, activeCellId, notifications, activeSidebarPanel, timers, idCounter,
          calls, lastOp>>

-----------------------------------------------------------------------------
\* Values

\* activeCellId = null
NoCell == <<>>
\* index omitted in addCell(type, content)
NoIndex == -1

\* `${prefix}-${Date.now()}-${Math.random()...}`: the n-th identifier drawn.
\* The pair (clock, random suffix) is taken to be different at every draw.
generateUniqueId(prefix, n) == <<prefix, n>>

\* An identifier that names no cell.
MissingId == generateUniqueId("cell", 0)

\* ['code', 'ai_chat', 'sql', 'form']: the types the Run Cell control is shown for.
RunnableTypes == {"code", "ai_chat", "sql", "form"}

\* { ...c, ...updates }: the fields of updates override those of c.
Spread(c, updates) ==
    [f \in (DOMAIN c) \cup (DOMAIN updates) |->
        IF f \in DOMAIN updates THEN updates[f] ELSE c[f]]

Has(c, f) == f \in DOMAIN c

CellIds(cs) == {cs[i].id : i \in 1..Len(cs)}
IdSeq(cs) == [i \in 1..Len(cs) |-> cs[i].id]

\* cells.find(c => c.id === cellId): the index of the first match, 0 when none.
FindIndex(cs, cellId) ==
    IF \E i \in 1..Len(cs) : cs[i].id = cellId
    THEN CHOOSE i \in 1..Len(cs) :
            /\ cs[i].id = cellId
            /\ \A j \in 1..(i - 1) : cs[j].id # cellId
    ELSE 0

\* cells.find(c => c.id === cellId)?.executionCount || 0
ExecutionCountOrZero(cs, cellId) ==
    LET i == FindIndex(cs, cellId)
    IN IF i = 0 THEN 0
       ELSE IF Has(cs[i], "executionCount") THEN cs[i].executionCount ELSE 0

-----------------------------------------------------------------------------
\* The state after construction

InitialCells ==
    << [id |-> generateUniqueId("cell", 1), type |-> "markdown", content |-> "c0",
        metadata |-> {}],
       [id |-> generateUniqueId("cell", 2), type |-> "code", content |-> "c0",
        status |-> "idle", executionCount |-> InitialExecutionCount, metadata |-> {}],
       [id |-> generateUniqueId("cell", 3), type |-> "data", content |-> "c0",
        metadata |-> {}],
       [id |-> generateUniqueId("cell", 4), type |-> "ai_chat", content |-> "c0",
        status |-> "idle", metadata |-> {}] >>

Init ==
    /\ cells = InitialCells
    /\ activeCellId = InitialCells[1].id
    /\ notifications = <<>>
    /\ activeSidebarPanel = "outline"
    /\ timers = <<>>
    /\ idCounter = Len(InitialCells)
    /\ calls = 0
    /\ lastOp = [op |-> "init"]

-----------------------------------------------------------------------------
\* The state a handler works on: the part of the session that addNotification,
\* updateCell and executeCell change, and the pushes the handler has made so
\* far (batch, empty when the handler starts).
Session == [cells |-> cells, notifications |-> notifications,
            timers |-> timers, idCounter |-> idCounter, batch |-> <<>>]

\* addNotification dropping a notification whose type and message are those of
\* one already in the queue.
addNotification_Dedupes(st, n) ==
    LET nid == generateUniqueId("notif", st.idCounter + 1)
    IN IF \E i \in 1..Len(st.notifications) :
             /\ st.notifications[i].type = n.type
             /\ st.notifications[i].message = n.message
       THEN [st EXCEPT !.idCounter = @ + 1]
       ELSE [st EXCEPT
               !.notifications = Append(@, Spread([id |-> nid, read |-> FALSE], n)),
               !.timers = Append(@, [kind |-> "dismiss", by |-> nid,
                                     batch |-> Append(st.batch, nid)]),
               !.idCounter = @ + 1,
               !.batch = Append(@, nid)]

\* addNotification scheduling a removal only when none is pending: one timer
\* for a run of pushes.
addNotification_OneTimerAtATime(st, n) ==
    LET nid == generateUniqueId("notif", st.idCounter + 1)
    IN [st EXCEPT
          !.notifications = Append(@, Spread([id |-> nid, read |-> FALSE], n)),
          !.timers = IF \E i \in 1..Len(@) : @[i].kind = "dismiss" THEN @
                     ELSE Append(@, [kind |-> "dismiss", by |-> nid,
                                     batch |-> Append(st.batch, nid)]),
          !.idCounter = @ + 1,
          !.batch = Append(@, nid)]

\* addNotification: append { id, timestamp, read: false, ...n } and schedule
\* the removal of the head of the queue.  The timer remembers what the
\* callback itself never reads: the push that scheduled it (by) and the pushes
\* the running handler has made so far, this one included (batch).
addNotification(st, n) ==
    LET nid == generateUniqueId("notif", st.idCounter + 1)
    IN [st EXCEPT
          !.notifications = Append(@, Spread([id |-> nid, read |-> FALSE], n)),
          !.timers = Append(@, [kind |-> "dismiss", by |-> nid,
                                batch |-> Append(st.batch, nid)]),
          !.idCounter = @ + 1,
          !.batch = Append(@, nid)]

\* updateCellMap adding a code cell that carries the updates when no cell has
\* the id.
updateCellMap_Upserts(prev, cellId, updates) ==
    IF cellId \in CellIds(prev)
    THEN [i \in 1..Len(prev) |->
             IF prev[i].id = cellId THEN Spread(prev[i], updates) ELSE prev[i]]
    ELSE Append(prev, Spread([id |-> cellId, type |-> "code", content |-> "c0",
                              metadata |-> {}],
                             updates))

\* updateCellMap falling back on the first cell when no cell has the id.
updateCellMap_FirstWhenMissing(prev, cellId, updates) ==
    [i \in 1..Len(prev) |->
        IF prev[i].id = cellId \/ (i = 1 /\ cellId \notin CellIds(prev))
        THEN Spread(prev[i], updates) ELSE prev[i]]

\* setCells(prev => prev.map(c => c.id === cellId ? { ...c, ...updates } : c))
updateCellMap(prev, cellId, updates) ==
    [i \in 1..Len(prev) |->
        IF prev[i].id = cellId THEN Spread(prev[i], updates) ELSE prev[i]]


\* completionUpdates writing the whole cell of the closure back: the content the
\* cell had at the call comes with the result.
completionUpdates_StaleContent(snapshot, cellId) ==
    [status |-> "success",
     outputs |-> << [type |-> "stream", name |-> "stdout"] >>,
     executionCount |-> ExecutionCountOrZero(snapshot, cellId) + 1,
     executionTime |-> [durationMs |-> DurationMs],
     content |-> IF FindIndex(snapshot, cellId) = 0 THEN "c0"
                 ELSE snapshot[FindIndex(snapshot, cellId)].content]

\* completionUpdates with the status written back as idle instead of success.
completionUpdates_BackToIdle(snapshot, cellId) ==
    [status |-> "idle",
     outputs |-> << [type |-> "stream", name |-> "stdout"] >>,
     executionCount |-> ExecutionCountOrZero(snapshot, cellId) + 1,
     executionTime |-> [durationMs |-> DurationMs]]

\* completionUpdates with the count written back as read, the + 1 forgotten.
completionUpdates_CountNotIncremented(snapshot, cellId) ==
    [status |-> "success",
     outputs |-> << [type |-> "stream", name |-> "stdout"] >>,
     executionCount |-> ExecutionCountOrZero(snapshot, cellId),
     executionTime |-> [durationMs |-> DurationMs]]

\* The updates the completion callback of executeCell applies (lines 633-638).
\* `snapshot` is the cell list of the closure the call was made from.
completionUpdates(snapshot, cellId) ==
    [status |-> "success",
     outputs |-> << [type |-> "stream", name |-> "stdout"] >>,
     executionCount |-> ExecutionCountOrZero(snapshot, cellId) + 1,
     executionTime |-> [durationMs |-> DurationMs]]

\* executeCellStep without its first statement: the cell is not marked running
\* before the completion is scheduled.
executeCellStep_NotMarkedRunning(st, snapshot, cellId) ==
    LET st2 == addNotification(st, [type |-> "info", message |-> "Executing cell..."])
    IN [st2 EXCEPT
          !.timers = Append(@, [kind |-> "exec",
                                cellId |-> cellId,
                                updates |-> completionUpdates(snapshot, cellId),
                                by |-> generateUniqueId("notif", st2.idCounter),
                                target |-> SelectSeq(st.cells, LAMBDA c : c.id = cellId)])]

\* executeCellStep cancelling the executions of the cell that are in flight
\* before it schedules its own completion.
executeCellStep_AbortsEarlier(st, snapshot, cellId) ==
    LET st1 == [st EXCEPT !.cells = updateCellMap(@, cellId, [status |-> "running"]),
                          !.timers = SelectSeq(@, LAMBDA t :
                                         ~(t.kind = "exec" /\ t.cellId = cellId))]
        st2 == addNotification(st1, [type |-> "info", message |-> "Executing cell..."])
    IN [st2 EXCEPT
          !.timers = Append(@, [kind |-> "exec",
                                cellId |-> cellId,
                                updates |-> completionUpdates(snapshot, cellId),
                                by |-> generateUniqueId("notif", st2.idCounter),
                                target |-> SelectSeq(st.cells, LAMBDA c : c.id = cellId)])]

\* executeCell(cellId), lines 627-640: mark the cell running, push the info
\* notification, schedule the completion.  No check of the id or of the type.
\* The timer also remembers the notification pushed by its call (by) and the
\* cells of the store that had this id when the call was made (target).
executeCellStep(st, snapshot, cellId) ==
    LET st1 == [st EXCEPT !.cells = updateCellMap(@, cellId, [status |-> "running"])]
        st2 == addNotification(st1, [type |-> "info", message |-> "Executing cell..."])
    IN [st2 EXCEPT
          !.timers = Append(@, [kind |-> "exec",
                                cellId |-> cellId,
                                updates |-> completionUpdates(snapshot, cellId),
                                by |-> generateUniqueId("notif", st2.idCounter),
                                target |-> SelectSeq(st.cells, LAMBDA c : c.id = cellId)])]

\* cells.forEach(c => { if (['code', 'sql'].includes(c.type)) executeCell(c.id) })
runAllTargets(cs) ==
    IdSeq(SelectSeq(cs, LAMBDA c : c.type \in {"code", "sql"}))

RECURSIVE executeEach(_, _, _)
executeEach(st, snapshot, ids) ==
    IF ids = <<>> THEN st
    ELSE executeEach(executeCellStep(st, snapshot, Head(ids)), snapshot, Tail(ids))

\* The metadata argument of addCell is optional: a sequence of no or one
\* metadata object.  metadata || {} is the object passed, or an empty one.
NoMetadata == <<>>

MetadataOrEmpty(metadata) ==
    IF metadata = NoMetadata THEN {} ELSE metadata[1]

\* makeCell with the execution fields left out, as the initial markdown cell
\* is written.
makeCell_NoExecutionFields(id, type, content, metadata) ==
    [id |-> id, type |-> type, content |-> content,
     metadata |-> MetadataOrEmpty(metadata)]

\* The new cell of addCell, lines 643-645 (a metadata object is the set of its
\* keys; comments carry no behaviour and are left out).
makeCell(id, type, content, metadata) ==
    [id |-> id, type |-> type, content |-> content,
     metadata |-> MetadataOrEmpty(metadata),
     outputs |-> <<>>, executionCount |-> 0, status |-> "idle"]

\* setCells(prev => [...prev, newCell]): the index argument is not used.
insertCell(prev, newCell, index) == Append(prev, newCell)

\* setCells(prev => prev.filter(c => c.id !== cellId))
removeCell(prev, cellId) == SelectSeq(prev, LAMBDA c : c.id # cellId)

\* dismissOldest removing the newest notification instead of the oldest.
dismissOldest_DropsNewest(prev) ==
    IF prev = <<>> THEN <<>> ELSE SubSeq(prev, 1, Len(prev) - 1)

\* setNotifications(prev => prev.slice(1))
dismissOldest(prev) == IF prev = <<>> THEN <<>> ELSE Tail(prev)

\* setTimeout delay of a pending timer.
Delay(t) == IF t.kind = "exec" THEN ExecDelayMs ELSE DismissDelayMs

\* A pending timer can be the next to run when every timer scheduled before it
\* has a longer delay: timers with the same delay run in scheduling order, and
\* a timer scheduled earlier with a shorter delay is due earlier.  A dismiss
\* timer may run before or after a completion scheduled later, depending on
\* how far apart the two calls were.  (Clock values are not kept: an order in
\* which more than six executions start and complete one after the other
\* while one dismiss timer stays pending would take more than 5000 ms, and
\* needs more calls than MaxCalls allows.)
\* CanFire with the scheduling order ignored: any pending timer may run next.
CanFire_AnyOrder(i) == TRUE

CanFire(i) == \A j \in 1..(i - 1) : Delay(timers[j]) > Delay(timers[i])

RemoveAt(s, i) == SubSeq(s, 1, i - 1) \o SubSeq(s, i + 1, Len(s))

\* What a call leaves in lastOp: the operation, its arguments, the state it
\* was made in and, for the async executeCell, how its promise settles (the
\* body has no throw and no await, so the promise is always fulfilled).
Before == [cells |-> cells, activeCellId |-> activeCellId]

Commit(st) ==
    /\ cells' = st.cells
    /\ notifications' = st.notifications
    /\ timers' = st.timers
    /\ idCounter' = st.idCounter

Call == calls < MaxCalls /\ calls' = calls + 1

-----------------------------------------------------------------------------
\* Inputs

AddTypes == {"code", "markdown"}
Contents == {"c1"}
TargetIds == CellIds(cells) \cup {MissingId}
\* moveCell is tried on the first and the last position, addCell with the
\* index omitted, at the head, at the end and past the end.
Positions == {0, Len(cells) - 1} \cap 0..(Len(cells) - 1)
Indexes == {NoIndex, 0, Len(cells), Len(cells) + 1}
\* addCell is tried without metadata for a code cell and with a metadata
\* object for a markdown cell.
Metadatas(type) == IF type = "code" THEN {NoMetadata} ELSE {<< {"collapsed"} >>}

-----------------------------------------------------------------------------
\* The facade operations

updateCell(cellId, updates) ==
    /\ Call
    /\ cells' = updateCellMap(cells, cellId, updates)
    /\ lastOp' = [op |-> "updateCell", cellId |-> cellId, updates |-> updates,
                  before |-> Before]
    /\ UNCHANGED <<activeCellId, notifications, timers, idCounter>>
    /\ UNCHANGED activeSidebarPanel

executeCell(cellId) ==
    /\ Call
    /\ Commit(executeCellStep(Session, cells, cellId))
    /\ lastOp' = [op |-> "executeCell", cellId |-> cellId, result |-> "fulfilled",
                  before |-> Before]
    /\ UNCHANGED activeCellId
    /\ UNCHANGED activeSidebarPanel

\* addCell without setActiveCellId(newCell.id): the selection is left alone.
addCell_ActiveKept(type, content, index, metadata) ==
    /\ Call
    /\ LET newCell == makeCell(generateUniqueId("cell", idCounter + 1), type, content,
                               metadata)
           st1 == [Session EXCEPT !.cells = insertCell(@, newCell, index),
                                  !.idCounter = @ + 1]
       IN /\ Commit(addNotification(st1, [type |-> "info", message |-> "Added " \o type \o " cell"]))
          /\ UNCHANGED activeCellId
    /\ lastOp' = [op |-> "addCell", type |-> type, index |-> index,
                  result |-> "returned", before |-> Before]
    /\ UNCHANGED activeSidebarPanel

addCell(type, content, index, metadata) ==
    /\ Call
    /\ LET newCell == makeCell(generateUniqueId("cell", idCounter + 1), type, content,
                               metadata)
           st1 == [Session EXCEPT !.cells = insertCell(@, newCell, index),
                                  !.idCounter = @ + 1]
       IN /\ Commit(addNotification(st1, [type |-> "info", message |-> "Added " \o type \o " cell"]))
          /\ activeCellId' = newCell.id
    /\ lastOp' = [op |-> "addCell", type |-> type, index |-> index,
                  result |-> "returned", before |-> Before]
    /\ UNCHANGED activeSidebarPanel

deleteCell(cellId) ==
    /\ Call
    /\ LET st1 == [Session EXCEPT !.cells = removeCell(@, cellId)]
       IN Commit(addNotification(st1, [type |-> "info", message |-> "Cell deleted"]))
    /\ lastOp' = [op |-> "deleteCell", cellId |-> cellId, before |-> Before]
    /\ UNCHANGED activeCellId
    /\ UNCHANGED activeSidebarPanel

\* moveCell with a body: the cell at `from` is taken out and put back at `to`
\* when both are positions of the list.
moveCell_Relocates(from, to) ==
    /\ Call
    /\ cells' = IF {from, to} \subseteq 0..(Len(cells) - 1)
                THEN LET rest == RemoveAt(cells, from + 1)
                     IN SubSeq(rest, 1, to) \o << cells[from + 1] >>
                           \o SubSeq(rest, to + 1, Len(rest))
                ELSE cells
    /\ lastOp' = [op |-> "moveCell", from |-> from, to |-> to, before |-> Before]
    /\ UNCHANGED <<activeCellId, notifications, timers, idCounter>>
    /\ UNCHANGED activeSidebarPanel

\* const moveCell = useCallback((from, to) => {}, []): an empty body.
moveCell(from, to) ==
    /\ Call
    /\ lastOp' = [op |-> "moveCell", from |-> from, to |-> to, before |-> Before]
    /\ UNCHANGED <<cells, activeCellId, notifications, timers, idCounter>>
    /\ UNCHANGED activeSidebarPanel

runAllCells ==
    /\ Call
    /\ LET st1 == addNotification(Session, [type |-> "info", message |-> "Running all cells..."])
       IN Commit(executeEach(st1, cells, runAllTargets(cells)))
    /\ lastOp' = [op |-> "runAllCells", before |-> Before]
    /\ UNCHANGED activeCellId
    /\ UNCHANGED activeSidebarPanel

saveNotebook ==
    /\ Call
    /\ Commit(addNotification(Session, [type |-> "success", message |-> "Notebook Saved"]))
    /\ lastOp' = [op |-> "saveNotebook", before |-> Before]
    /\ UNCHANGED activeCellId
    /\ UNCHANGED activeSidebarPanel

loadNotebook ==
    /\ Call
    /\ lastOp' = [op |-> "loadNotebook", before |-> Before]
    /\ UNCHANGED <<cells, activeCellId, notifications, timers, idCounter>>
    /\ UNCHANGED activeSidebarPanel

undo ==
    /\ Call
    /\ lastOp' = [op |-> "undo", before |-> Before]
    /\ UNCHANGED <<cells, activeCellId, notifications, timers, idCounter>>
    /\ UNCHANGED activeSidebarPanel

redo ==
    /\ Call
    /\ lastOp' = [op |-> "redo", before |-> Before]
    /\ UNCHANGED <<cells, activeCellId, notifications, timers, idCounter>>
    /\ UNCHANGED activeSidebarPanel

setActiveCellId(id) ==
    /\ Call
    /\ activeCellId' = id
    /\ lastOp' = [op |-> "setActiveCellId", cellId |-> id, before |-> Before]
    /\ UNCHANGED <<cells, notifications, timers, idCounter>>
    /\ UNCHANGED activeSidebarPanel

\* setActiveSidebarPanel(p): the panel is stored as it is passed.
toggleSidebarPanel(p) ==
    /\ Call
    /\ activeSidebarPanel' = p
    /\ lastOp' = [op |-> "toggleSidebarPanel", panel |-> p, before |-> Before]
    /\ UNCHANGED <<cells, activeCellId, notifications, timers, idCounter>>

-----------------------------------------------------------------------------
\* The setTimeout callbacks

\* The completion of an execution, lines 631-639.
executeCellTimeout(i) ==
    /\ timers[i].kind = "exec"
    /\ CanFire(i)
    /\ cells' = updateCellMap(cells, timers[i].cellId, timers[i].updates)
    /\ timers' = RemoveAt(timers, i)
    /\ lastOp' = [op |-> "timeout", timer |-> timers[i], before |-> Before]
    /\ UNCHANGED <<activeCellId, notifications, idCounter, calls>>
    /\ UNCHANGED activeSidebarPanel

\* The auto dismiss of addNotification, line 620.  lastOp keeps the entries the
\* callback has taken off the head of the queue (removed).
dismissTimeout(i) ==
    /\ timers[i].kind = "dismiss"
    /\ CanFire(i)
    /\ notifications' = dismissOldest(notifications)
    /\ timers' = RemoveAt(timers, i)
    /\ lastOp' = [op |-> "timeout", timer |-> timers[i], before |-> Before,
                  removed |-> SubSeq(notifications, 1,
                                     Len(notifications) - Len(notifications'))]
    /\ UNCHANGED <<cells, activeCellId, idCounter, calls>>
    /\ UNCHANGED activeSidebarPanel

Timeout == \E i \in 1..Len(timers) : executeCellTimeout(i) \/ dismissTimeout(i)

-----------------------------------------------------------------------------
\* Specifications

Next ==
    \/ \E id \in TargetIds, c \in Contents : updateCell(id, [content |-> c])
    \/ \E id \in TargetIds : executeCell(id)
    \/ \E t \in AddTypes, c \in Contents, i \in Indexes :
          \E m \in Metadatas(t) : addCell(t, c, i, m)
    \/ \E id \in TargetIds : deleteCell(id)
    \/ \E from \in Positions, to \in Positions : moveCell(from, to)
    \/ runAllCells
    \/ saveNotebook
    \/ loadNotebook
    \/ undo
    \/ redo
    \/ \E id \in CellIds(cells) \cup {NoCell} : setActiveCellId(id)
    \/ Timeout

Spec == Init /\ [][Next]_vars

\* The event loop runs every timer that is due.
FairNext == Next /\ calls' <= MaxFairCalls

FairSpec == Init /\ [][FairNext]_vars /\ WF_vars(Timeout)

\* The facade as any consumer of the context can call it: updateCell takes any
\* Partial<EnhancedCell>, which may carry an id or a type (line 142).
ApiUpdates == {[content |-> "c1"], [type |-> "markdown"], [id |-> InitialCells[1].id]}

\* moveCell takes any two numbers (line 145): one before the list, one past it.
ApiPositions == {-1, Len(cells)}

ApiNext ==
    \/ Next
    \/ \E id \in TargetIds, u \in ApiUpdates : updateCell(id, u)
    \/ \E p \in ApiPositions : moveCell(p, 0) \/ moveCell(0, p)

ApiSpec == Init /\ [][ApiNext]_vars

\* The declared values of activeSidebarPanel (lines 158 and 616) and the labels
\* of the tabs the sidebar renders, each passed to toggleSidebarPanel by its
\* button (lines 502-505).
SidebarPanels == {"outline", "variables", "files", "plugins"}
SidebarTabs == {"outline", "files", "vars"}

\* The session with the sidebar tabs clicked.
SidebarNext ==
    \/ Next
    \/ \E p \in SidebarTabs : toggleSidebarPanel(p)

SidebarSpec == Init /\ [][SidebarNext]_vars


-----------------------------------------------------------------------------
\* Vocabulary of the properties

Range(s) == {s[i] : i \in 1..Len(s)}

\* The cells of cs that have this id.
CellsWithId(cs, id) == {c \in Range(cs) : c.id = id}

NoDuplicateIds(cs) == \A i, j \in 1..Len(cs) : cs[i].id = cs[j].id => i = j

\* The executions a step dispatched: the cell ids of the completion timers it
\* scheduled, in scheduling order.
Dispatched(old, new) ==
    LET added == SubSeq(new, Len(old) + 1, Len(new))
        execs == SelectSeq(added, LAMBDA t : t.kind = "exec")
    IN [i \in 1..Len(execs) |-> execs[i].cellId]

\* The execution fields of a cell, those it has.
ExecFields(c) ==
    [f \in {"status", "outputs", "executionCount", "executionTime"} \cap DOMAIN c |-> c[f]]

\* move as the contract words it, on 0-based positions: take the element at
\* `from` out and put it back at `to`, the others keeping their order.
Relocated(s, from, to) ==
    LET rest == RemoveAt(s, from + 1)
    IN SubSeq(rest, 1, to) \o << s[from + 1] >> \o SubSeq(rest, to + 1, Len(rest))

\* A step that is the completion of an execution.
IsCompletion(op) == op.op = "timeout" /\ op.timer.kind = "exec"


-----------------------------------------------------------------------------
\* C1: over addCell / deleteCell / moveCell calls the cell list never holds two
\* cells with the same id, and its order is the order of the insertions that
\* were not removed, permuted by the moveCell calls: addCell adds one new id and
\* keeps the order of the others, deleteCell takes the id out, and
\* moveCell(from, to) relocates the id at `from` to `to`.
C1_UniqueIdsOrderFollowsMoves ==
    [][ /\ lastOp'.op \in {"addCell", "deleteCell", "moveCell"} => NoDuplicateIds(cells')
        /\ lastOp'.op = "addCell" =>
              \E id \in CellIds(cells') \ CellIds(cells) :
                  SelectSeq(IdSeq(cells'), LAMBDA x : x # id) = IdSeq(cells)
        /\ lastOp'.op = "deleteCell" =>
              IdSeq(cells') = SelectSeq(IdSeq(cells), LAMBDA x : x # lastOp'.cellId)
        /\ lastOp'.op = "moveCell" =>
              IdSeq(cells') = Relocated(IdSeq(cells), lastOp'.from, lastOp'.to)
      ]_vars

\* C2: addCell(type, content, index) with 0 <= index <= length puts the new
\* cell at position index and shifts the cells that were at positions >= index
\* one place later; without an index the new cell goes to the end.
C2_AddCellAtIndex ==
    [][ lastOp'.op = "addCell" =>
          LET at == IF lastOp'.index = NoIndex THEN Len(cells) ELSE lastOp'.index
          IN /\ Len(cells') = Len(cells) + 1
             /\ cells'[at + 1].id \notin CellIds(cells)
             /\ cells'[at + 1].type = lastOp'.type
             /\ \A i \in 1..Len(cells) :
                   cells'[IF i <= at THEN i ELSE i + 1] = cells[i]
      ]_vars

\* C3: executeCell(id) on a cell whose type is not runnable fails with
\* UnsupportedType, and the execution fields of a cell of a non-runnable type
\* (status, outputs, executionCount, executionTime) are changed neither by the
\* call nor by any timer that runs later.
C3_NonRunnableRejected ==
    [][ /\ ( /\ lastOp'.op = "executeCell"
             /\ \E c \in CellsWithId(cells, lastOp'.cellId) : c.type \notin RunnableTypes )
           => lastOp'.result = "UnsupportedType"
        /\ lastOp'.op \in {"executeCell", "timeout"} =>
              \A c \in Range(cells), d \in Range(cells') :
                  (c.id = d.id /\ c.type \notin RunnableTypes)
                     => ExecFields(d) = ExecFields(c)
      ]_vars

\* C4: runAllCells dispatches executeCell exactly once for every cell of a
\* runnable type (code, ai_chat, sql, form), for no other cell, in document
\* order.
C4_RunAllDispatchesRunnable ==
    [][ lastOp'.op = "runAllCells" =>
          Dispatched(timers, timers')
             = IdSeq(SelectSeq(cells, LAMBDA c : c.type \in RunnableTypes))
      ]_vars


-----------------------------------------------------------------------------
\* The executions a behaviour with fairness can hold: each is named by the
\* notification its call pushed.  k calls draw at most k * (k + 2) identifiers
\* (a addCell calls draw 2a, each of the k - a runAllCells at most 2 + a).
ExecNames ==
    {generateUniqueId("notif", n) :
        n \in (Len(InitialCells) + 1)..(Len(InitialCells) + MaxFairCalls * (MaxFairCalls + 2))}

PendingExec(e) == \E i \in 1..Len(timers) : timers[i].kind = "exec" /\ timers[i].by = e
AppliedExec(e) == IsCompletion(lastOp) /\ lastOp.timer.by = e

\* The completion being applied is of an execution requested on a code cell
\* that existed at the call, and no other execution of that cell has been
\* requested since (completions run in the order of their calls, so a later
\* request would still be pending).
SoleCodeCompletion(op, pending) ==
    /\ IsCompletion(op)
    /\ op.timer.target # <<>>
    /\ op.timer.target[1].type = "code"
    /\ \A i \in 1..Len(pending) :
          pending[i].kind = "exec" => pending[i].cellId # op.timer.cellId

\* The cell shows the outcome of the execution: success, some output, and an
\* executionCount one above the one it had when the call was made.
ShowsSuccess(c, t) ==
    /\ c.status = "success"
    /\ c.outputs # <<>>
    /\ c.executionCount = t.target[1].executionCount + 1

\* C5 as stated: after executeCell(id) on an existing code cell, with no other
\* execution of that cell requested, the completion leaves the cell with
\* status success, non-empty outputs and executionCount one above the value
\* before the call.
C5_CompletionShowsSuccess ==
    [][ SoleCodeCompletion(lastOp', timers') =>
          \E c \in CellsWithId(cells', lastOp'.timer.cellId) : ShowsSuccess(c, lastOp'.timer)
      ]_vars

\* C5, amended: every requested execution has its completion applied, and the
\* completion of a sole execution of a code cell that is still in the list
\* when it is applied leaves that cell with status success, non-empty outputs
\* and executionCount one above the value before the call.
C5_CompletionShowsSuccessIfPresent ==
    /\ [][ ( /\ SoleCodeCompletion(lastOp', timers')
             /\ CellsWithId(cells, lastOp'.timer.cellId) # {} )
           => /\ CellsWithId(cells', lastOp'.timer.cellId) # {}
              /\ \A c \in CellsWithId(cells', lastOp'.timer.cellId) :
                    ShowsSuccess(c, lastOp'.timer)
         ]_vars
    /\ \A e \in ExecNames : PendingExec(e) ~> AppliedExec(e)

\* C5 witness: the completion of the only execution of a code cell has just
\* been applied to the cell, which shows success and a count one higher.
C5_Witness ==
    /\ SoleCodeCompletion(lastOp, timers)
    /\ \E c \in CellsWithId(cells, lastOp.timer.cellId) :
          /\ ShowsSuccess(c, lastOp.timer)
          /\ c.executionCount = InitialExecutionCount + 1

\* C6: when executeCell(id) is accepted for an existing runnable cell whose
\* status is idle, success or error, the cell's status is running in the state
\* right after the call, before any completion is applied.
C6_RunningAfterCall ==
    [][ lastOp'.op = "executeCell" =>
          \A c \in CellsWithId(cells, lastOp'.cellId) :
              ( /\ c.type \in RunnableTypes
                /\ "status" \in DOMAIN c
                /\ c.status \in {"idle", "success", "error"} )
              => /\ CellsWithId(cells', c.id) # {}
                 /\ \A d \in CellsWithId(cells', c.id) : d.status = "running"
      ]_vars

\* C6 witness: executeCell has just been called on a runnable cell that showed
\* success, and the cell shows running.
C6_Witness ==
    /\ lastOp.op = "executeCell"
    /\ \E c \in CellsWithId(lastOp.before.cells, lastOp.cellId) :
          /\ c.type \in RunnableTypes
          /\ "status" \in DOMAIN c
          /\ c.status = "success"
    /\ \E d \in CellsWithId(cells, lastOp.cellId) : d.status = "running"

\* C7: deleteCell(id) on the active cell sets activeCellId to none; on a cell
\* that is not active it leaves activeCellId unchanged.
C7_DeleteClearsActive ==
    [][ lastOp'.op = "deleteCell" =>
          activeCellId' = IF activeCellId = lastOp'.cellId THEN NoCell ELSE activeCellId
      ]_vars

\* C8: moveCell(fromIndex, toIndex) with both indices valid positions puts the
\* cell at fromIndex at position toIndex and keeps the relative order of all
\* other cells.
C8_MoveRelocates ==
    [][ ( /\ lastOp'.op = "moveCell"
          /\ lastOp'.from \in 0..(Len(cells) - 1)
          /\ lastOp'.to \in 0..(Len(cells) - 1) )
        => cells' = Relocated(cells, lastOp'.from, lastOp'.to)
      ]_vars

\* C9: updateCell(id, updates) never alters the id or the type of any cell,
\* whatever Partial<EnhancedCell> is passed as updates.
C9_UpdateKeepsIdAndType ==
    [][ lastOp'.op = "updateCell" =>
          /\ Len(cells') = Len(cells)
          /\ \A i \in 1..Len(cells) :
                cells'[i].id = cells[i].id /\ cells'[i].type = cells[i].type
      ]_vars

\* C10: every mutating call on the facade (addCell, updateCell, deleteCell,
\* moveCell, executeCell, runAllCells, saveNotebook, loadNotebook) pushes
\* exactly one notification.
C10_OneNotificationPerCall ==
    [][ lastOp'.op \in {"addCell", "updateCell", "deleteCell", "moveCell", "executeCell",
                        "runAllCells", "saveNotebook", "loadNotebook"}
        => Len(notifications') = Len(notifications) + 1
      ]_vars


-----------------------------------------------------------------------------
\* C11: the executionCount of a cell never decreases, whatever operations run
\* and in whatever order the completions of overlapping executions of the
\* same cell are applied: a cell that has an executionCount keeps one, and it
\* is at least the one before.
C11_ExecutionCountNeverDecreases ==
    [][ \A c \in Range(cells), d \in Range(cells') :
          (c.id = d.id /\ "executionCount" \in DOMAIN c)
             => /\ "executionCount" \in DOMAIN d
                /\ d.executionCount >= c.executionCount
      ]_vars

\* C11 witness: the completion of an execution that was requested while an
\* earlier execution of the same cell was in flight has just been applied.
C11_Witness ==
    /\ IsCompletion(lastOp)
    /\ lastOp.timer.target # <<>>
    /\ "status" \in DOMAIN lastOp.timer.target[1]
    /\ lastOp.timer.target[1].status = "running"
    /\ "executionCount" \in DOMAIN lastOp.timer.target[1]
    /\ \E c \in CellsWithId(cells, lastOp.timer.cellId) :
          c.executionCount = lastOp.timer.target[1].executionCount + 1


-----------------------------------------------------------------------------
\* The status a cell shows: CellStatusIndicator renders a cell that has no
\* status field as Idle.
StatusOf(c) == IF "status" \in DOMAIN c THEN c.status ELSE "idle"

\* The edges of the execution state machine, with the kind of step each one
\* belongs to: "request" is an execute request, "completion" the completion of
\* an execution, "any" an internal step.
StatusEdges ==
    ({"idle", "success", "error"} \X {"queued", "running"} \X {"request"})
       \cup {<<"queued", "running", "any">>}
       \cup ({"running"} \X {"success", "error"} \X {"completion"})

StepKind(op) ==
    IF op.op \in {"executeCell", "runAllCells"} THEN "request"
    ELSE IF IsCompletion(op) THEN "completion"
    ELSE "other"

\* C12: the status of a cell changes only along the edges of the execution
\* state machine: idle/success/error -> queued or running on an execute
\* request, queued -> running, running -> success or error on completion.
\* (A cell without a status field counts as idle.)
C12_StatusFollowsEdges ==
    [][ \A c \in Range(cells), d \in Range(cells') :
          (c.id = d.id /\ StatusOf(c) # StatusOf(d))
             => \/ <<StatusOf(c), StatusOf(d), StepKind(lastOp')>> \in StatusEdges
                \/ <<StatusOf(c), StatusOf(d), "any">> \in StatusEdges
      ]_vars

\* C12 witness: a cell has gone idle -> running -> success -> running -> success:
\* the completion of its second execution has just been applied.
C12_Witness ==
    /\ IsCompletion(lastOp)
    /\ \E c \in CellsWithId(lastOp.before.cells, lastOp.timer.cellId) :
          /\ StatusOf(c) = "running"
          /\ "executionCount" \in DOMAIN c
          /\ c.executionCount > InitialExecutionCount
    /\ \E d \in CellsWithId(cells, lastOp.timer.cellId) : StatusOf(d) = "success"
    /\ lastOp.timer.target # <<>>
    /\ StatusOf(lastOp.timer.target[1]) = "success"


-----------------------------------------------------------------------------
NotificationIds == {notifications[i].id : i \in 1..Len(notifications)}

IsDismiss(op) == op.op = "timeout" /\ op.timer.kind = "dismiss"

\* The last three pushes of the handler that scheduled the dismiss timer t:
\* three notifications pushed in quick succession, in one run of a handler and
\* so before any timer can fire, t being the timer of the last of them.
LastThree(t) == SubSeq(t.batch, Len(t.batch) - 2, Len(t.batch))

\* C13 as the specification states it: when three notifications were pushed in
\* quick succession and the decay delay has elapsed (the timer of the last of
\* them has run), exactly one, the oldest, has been removed and two remain.
C13_QuickPushesOneDecays ==
    [][ (IsDismiss(lastOp') /\ Len(lastOp'.timer.batch) >= 3)
          => LET three == LastThree(lastOp'.timer)
             IN /\ three[1] \notin NotificationIds'
                /\ three[2] \in NotificationIds'
                /\ three[3] \in NotificationIds'
      ]_vars

\* C13, amended: when three notifications were pushed in quick succession and
\* the decay delay has elapsed (the timer of the last of them has run), each
\* push has had its own removal: all three have been removed, none remains.
C13_QuickPushesAllDecay ==
    [][ (IsDismiss(lastOp') /\ Len(lastOp'.timer.batch) >= 3)
          => \A i \in 1..3 : LastThree(lastOp'.timer)[i] \notin NotificationIds'
      ]_vars

\* C13 witness: runAllCells pushed three notifications in one run, and the
\* timer of the third has just run while a later notification is still queued.
C13_Witness ==
    /\ IsDismiss(lastOp)
    /\ Len(lastOp.timer.batch) >= 3
    /\ \A i \in 1..3 : LastThree(lastOp.timer)[i] \notin NotificationIds
    /\ notifications # <<>>


-----------------------------------------------------------------------------
\* The notifications a step has pushed: those of the dismiss timers it has
\* scheduled.
PushedBy(old, new) ==
    {new[i].by : i \in {j \in (Len(old) + 1)..Len(new) : new[j].kind = "dismiss"}}

\* C14: for every push, the notification is in the queue when the call that
\* pushed it returns, and it is no longer in the queue once the removal timer
\* scheduled by its push has run.
C14_PresentThenDecayed ==
    [][ /\ (lastOp'.op # "timeout") => PushedBy(timers, timers') \subseteq NotificationIds'
        /\ IsDismiss(lastOp') => lastOp'.timer.by \notin NotificationIds'
      ]_vars

\* C14 witness: the removal timer of a notification has just run, the
\* notification is gone and the ones pushed after it are still queued.
C14_Witness ==
    /\ IsDismiss(lastOp)
    /\ lastOp.timer.by \notin NotificationIds
    /\ Len(notifications) >= 2
    /\ \A i \in 1..Len(notifications) : notifications[i].id[2] > lastOp.timer.by[2]


-----------------------------------------------------------------------------
\* The cells a step has created: those whose id no cell had before.
Created(old, new) == {c \in Range(new) : c.id \notin CellIds(old)}

FreshCell(c) ==
    /\ {"status", "outputs", "executionCount"} \subseteq DOMAIN c
    /\ c.status = "idle"
    /\ c.outputs = <<>>
    /\ c.executionCount = 0

\* C15: addCell creates exactly one cell, and that cell has status idle, no
\* outputs and executionCount 0, whatever type, content and metadata are
\* passed.
C15_NewCellIsFresh ==
    [][ lastOp'.op = "addCell"
          => /\ Cardinality(Created(cells, cells')) = 1
             /\ \A c \in Created(cells, cells') : FreshCell(c) /\ c.type = lastOp'.type
      ]_vars

\* C15 witness: addCell has just created a markdown cell that carries the
\* metadata passed, with status idle, no outputs and executionCount 0.
C15_Witness ==
    /\ lastOp.op = "addCell"
    /\ \E c \in Created(lastOp.before.cells, cells) :
          /\ c.type = "markdown"
          /\ c.metadata # {}
          /\ FreshCell(c)


-----------------------------------------------------------------------------
-----------------------------------------------------------------------------
\* C17: addCell called with an index outside 0..length fails with RangeError
\* and leaves the cell list, activeCellId and the notification queue as they
\* were.
C17_IndexOutOfRangeRejected ==
    [][ ( /\ lastOp'.op = "addCell"
          /\ lastOp'.index # NoIndex
          /\ lastOp'.index \notin 0..Len(cells) )
          => /\ lastOp'.result = "RangeError"
             /\ cells' = cells
             /\ activeCellId' = activeCellId
             /\ notifications' = notifications
      ]_vars

\* C18: executeCell(id) with an id that matches no cell fails with NotFound
\* synchronously and starts no execution: no notification is pushed and no
\* completion is scheduled.
C18_UnknownIdRejected ==
    [][ (lastOp'.op = "executeCell" /\ CellsWithId(cells, lastOp'.cellId) = {})
          => /\ lastOp'.result = "NotFound"
             /\ notifications' = notifications
             /\ timers' = timers
      ]_vars


-----------------------------------------------------------------------------
\* C20: updateCell(id, updates) with an id that matches no cell is a no-op:
\* the cell list is the same before and after the call.
C20_UpdateUnknownIdIsNoOp ==
    [][ (lastOp'.op = "updateCell" /\ CellsWithId(cells, lastOp'.cellId) = {})
          => cells' = cells
      ]_vars

\* C20 witness: updateCell has just been called with an id no cell has, with
\* updates that would change any cell, and the cell list is as it was.
C20_Witness ==
    /\ lastOp.op = "updateCell"
    /\ CellsWithId(lastOp.before.cells, lastOp.cellId) = {}
    /\ \A c \in Range(lastOp.before.cells) : Spread(c, lastOp.updates) # c
    /\ cells = lastOp.before.cells


-----------------------------------------------------------------------------
\* C21: in every reachable state activeSidebarPanel is one of outline,
\* variables, files and plugins, also after any click on a sidebar tab.
C21_SidebarPanelDeclared == activeSidebarPanel \in SidebarPanels


-----------------------------------------------------------------------------
Stubs == {"undo", "redo", "moveCell"}

\* C22: undo, redo and moveCell are no-ops: from any state and for any
\* arguments each leaves the cell list, activeCellId, the notification queue
\* and the rest of the session (the sidebar panel, the pending timers) as
\* they were.
C22_StubsChangeNothing ==
    [][ lastOp'.op \in Stubs
          => UNCHANGED <<cells, activeCellId, notifications, activeSidebarPanel,
                         timers, idCounter>>
      ]_vars

\* C22 witness: moveCell has just been called with two different positions of
\* a list whose cells differ, while an execution was in flight, and the list
\* is in the order it had.
C22_Witness ==
    /\ lastOp.op = "moveCell"
    /\ {lastOp.from, lastOp.to} \subseteq 0..(Len(cells) - 1)
    /\ cells[lastOp.from + 1] # cells[lastOp.to + 1]
    /\ \E i \in 1..Len(timers) : timers[i].kind = "exec"
    /\ cells = lastOp.before.cells


-----------------------------------------------------------------------------
ExecFieldNames == {"status", "outputs", "executionCount", "executionTime"}

\* The record c without its execution fields.
OtherFields(c) == [f \in DOMAIN c \ ExecFieldNames |-> c[f]]

\* C23: applying the completion of an execution of cell X changes only the
\* record of X and, in it, only status, outputs, executionCount and
\* executionTime: the list keeps its length and order, every other cell is
\* as it was, and the id, type and content of X (edits made while it was
\* running included) are as they were.
C23_CompletionFrame ==
    [][ IsCompletion(lastOp')
          => /\ Len(cells') = Len(cells)
             /\ \A i \in 1..Len(cells) :
                   IF cells[i].id = lastOp'.timer.cellId
                   THEN OtherFields(cells'[i]) = OtherFields(cells[i])
                   ELSE cells'[i] = cells[i]
      ]_vars

\* C23 witness: the completion of an execution has just been applied to a cell
\* whose content was edited while it was running, and the content is the
\* edited one.
C23_Witness ==
    /\ IsCompletion(lastOp)
    /\ lastOp.timer.target # <<>>
    /\ \E c \in CellsWithId(cells, lastOp.timer.cellId) :
          /\ c.content # lastOp.timer.target[1].content
          /\ StatusOf(c) = "success"
          /\ \E b \in CellsWithId(lastOp.before.cells, c.id) :
                b.content = c.content /\ StatusOf(b) = "running"


-----------------------------------------------------------------------------
\* The executions of a cell that are in flight.
InFlight(ts, cellId) ==
    {i \in 1..Len(ts) : ts[i].kind = "exec" /\ ts[i].cellId = cellId}

\* C24: executeCell is accepted on a cell that is running: the call is
\* fulfilled, the executions in flight stay scheduled and one more is
\* scheduled; and every completion is applied when its timer runs, the cell
\* showing the status and the outputs written by the completion applied last.
C24_ReexecuteLastWriterWins ==
    [][ /\ ( /\ lastOp'.op = "executeCell"
             /\ \E c \in CellsWithId(cells, lastOp'.cellId) : StatusOf(c) = "running" )
           => /\ lastOp'.result = "fulfilled"
              /\ SubSeq(timers', 1, Len(timers)) = timers
              /\ Cardinality(InFlight(timers', lastOp'.cellId))
                    = Cardinality(InFlight(timers, lastOp'.cellId)) + 1
        /\ IsCompletion(lastOp')
           => \A c \in CellsWithId(cells', lastOp'.timer.cellId) :
                 /\ c.status = lastOp'.timer.updates.status
                 /\ c.outputs = lastOp'.timer.updates.outputs
      ]_vars

\* C24 witness: a cell was executed again while it was running, and the
\* completion of the later execution has just been applied after the one of
\* the earlier execution: none is in flight and the cell shows the result
\* written last.
C24_Witness ==
    /\ IsCompletion(lastOp)
    /\ lastOp.timer.target # <<>>
    /\ StatusOf(lastOp.timer.target[1]) = "running"
    /\ InFlight(timers, lastOp.timer.cellId) = {}
    /\ \E c \in CellsWithId(cells, lastOp.timer.cellId) :
          /\ StatusOf(c) = "success"
          /\ c.outputs = lastOp.timer.updates.outputs
    /\ \E b \in CellsWithId(lastOp.before.cells, lastOp.timer.cellId) :
          StatusOf(b) = "success"


-----------------------------------------------------------------------------
\* The calls that push one notification each.
SinglePush == {"executeCell", "addCell", "deleteCell", "saveNotebook"}

\* The entries a step has appended to the queue.
Appended(old, new) == SubSeq(new, Len(old) + 1, Len(new))

\* C25: addNotification appends one entry with read = false at the tail of
\* the queue, also when an entry with the same type and message is in the
\* queue, and leaves the entries already there as they are, in their order.
C25_PushAppendsUnread ==
    [][ (lastOp'.op # "timeout")
          => /\ Len(notifications') >= Len(notifications)
             /\ SubSeq(notifications', 1, Len(notifications)) = notifications
             /\ \A i \in (Len(notifications) + 1)..Len(notifications') :
                   notifications'[i].read = FALSE
             /\ {notifications'[i].id : i \in (Len(notifications) + 1)..Len(notifications')}
                   = PushedBy(timers, timers')
             /\ Cardinality(PushedBy(timers, timers'))
                   = Len(notifications') - Len(notifications)
             /\ (lastOp'.op \in SinglePush)
                   => Len(notifications') = Len(notifications) + 1
      ]_vars

\* C25 witness: saveNotebook has just pushed its notification while one with
\* the same type and message was in the queue, and both are there, unread.
C25_Witness ==
    /\ lastOp.op = "saveNotebook"
    /\ \E i, j \in 1..Len(notifications) :
          /\ i < j
          /\ j = Len(notifications)
          /\ notifications[i].type = notifications[j].type
          /\ notifications[i].message = notifications[j].message
          /\ notifications[i].id # notifications[j].id
          /\ ~notifications[i].read /\ ~notifications[j].read


-----------------------------------------------------------------------------
\* The queue a removal timer found when it ran.
QueueFound(op) == op.removed \o notifications

\* C26 as the specification states it: when pushes are frequent (a removal
\* timer runs while notifications pushed after the one of its push are
\* queued), notifications decay out of order: the timer removes a
\* notification created by a different push than the one that scheduled it.
C26_DecayOutOfOrder ==
    (IsDismiss(lastOp) /\ Len(QueueFound(lastOp)) >= 2)
       => \E i \in 1..Len(lastOp.removed) : lastOp.removed[i].id # lastOp.timer.by

\* C26, amended: notifications decay in the order of their age, also when
\* pushes are frequent: every removal timer finds the notification of the
\* push that scheduled it at the head of the queue, and removes it and
\* nothing else.
C26_DecayInOrder ==
    IsDismiss(lastOp)
       => /\ Len(lastOp.removed) = 1
          /\ lastOp.removed[1].id = lastOp.timer.by
          /\ \A i \in 1..Len(notifications) :
                notifications[i].id[2] > lastOp.timer.by[2]

\* C26 witness: a handler pushed two notifications or more in one run, and the
\* timer of the first of them has just removed it while the others are
\* queued.
C26_Witness ==
    /\ IsDismiss(lastOp)
    /\ Len(lastOp.timer.batch) = 1
    /\ Len(notifications) >= 2
    /\ \E i \in 1..Len(timers) :
          /\ timers[i].kind = "dismiss"
          /\ Len(timers[i].batch) >= 2
          /\ timers[i].batch[1] = lastOp.timer.by
    /\ lastOp.removed[1].id = lastOp.timer.by


-----------------------------------------------------------------------------
\* The pending removal timers.
PendingDismiss == {i \in 1..Len(timers) : timers[i].kind = "dismiss"}

\* C27: in every reachable state there are as many pending removal timers as
\* notifications in the queue, so every removal timer that runs finds an entry
\* to remove; and once the pushes have stopped the queue becomes empty and
\* stays empty.
C27_TimersMatchQueue ==
    /\ [](/\ Cardinality(PendingDismiss) = Len(notifications)
          /\ IsDismiss(lastOp) => Len(lastOp.removed) = 1)
    /\ <>[](notifications = <<>>)

\* C27 witness: the timer of the last of several notifications pushed in one
\* run has just emptied the queue, and no removal timer is pending.
C27_Witness ==
    /\ IsDismiss(lastOp)
    /\ Len(lastOp.timer.batch) >= 2
    /\ lastOp.removed # <<>>
    /\ notifications = <<>>
    /\ PendingDismiss = {}


-----------------------------------------------------------------------------
\* The executionCount a cell shows, a cell without the field showing none.
CountOf(c) == IF "executionCount" \in DOMAIN c THEN c.executionCount ELSE 0

\* C28: n executions of the same existing cell, overlapping or not, leave its
\* executionCount n greater once their n completions are applied.  The count
\* is changed by completions only, one completion per execution, so this is
\* that every completion applied to a runnable cell raises its count by one.
C28_EveryExecutionCounts ==
    [][ /\ IsCompletion(lastOp')
           => \A i \in 1..Len(cells) :
                 (cells[i].id = lastOp'.timer.cellId /\ cells[i].type \in RunnableTypes)
                    => CountOf(cells'[i]) = CountOf(cells[i]) + 1
        /\ ~IsCompletion(lastOp')
           => \A c \in Range(cells), d \in Range(cells') :
                 (c.id = d.id) => CountOf(d) = CountOf(c)
      ]_vars


-----------------------------------------------------------------------------
\* C29 as stated: whenever an execution of an existing cell is in flight, the
\* status of the cell is running.
C29_InFlightIsRunning ==
    \A c \in Range(cells) :
       InFlight(timers, c.id) # {} => StatusOf(c) = "running"

\* C29, amended: a cell is running from the dispatch of an execution until a
\* completion is applied to it.  While an execution of an existing cell is in
\* flight the cell is running or, after the completion of an overlapping
\* execution, success; a dispatch leaves it running, and only a completion
\* applied to the cell ends running.
C29_RunningUntilACompletion ==
    /\ [](\A c \in Range(cells) :
             InFlight(timers, c.id) # {} => StatusOf(c) \in {"running", "success"})
    /\ [][ \A c \in Range(cells), d \in Range(cells') :
             (c.id = d.id)
                => /\ (Cardinality(InFlight(timers', c.id))
                          > Cardinality(InFlight(timers, c.id)))
                      => StatusOf(d) = "running"
                   /\ (StatusOf(c) = "running" /\ StatusOf(d) # "running")
                      => IsCompletion(lastOp') /\ lastOp'.timer.cellId = c.id
         ]_vars

\* C29 witness: the completion of the first of two overlapping executions of
\* a cell has just been applied: the cell shows success and the second
\* execution is in flight.
C29_Witness ==
    /\ IsCompletion(lastOp)
    /\ \E c \in CellsWithId(cells, lastOp.timer.cellId) :
          /\ StatusOf(c) = "success"
          /\ InFlight(timers, c.id) # {}


-----------------------------------------------------------------------------
\* C30: in every reachable state activeCellId is none or the id of a cell
\* that is in the cell list.
C30_ActiveCellIsPresent ==
    activeCellId = NoCell \/ activeCellId \in CellIds(cells)


-----------------------------------------------------------------------------
\* A completion that found its cell deleted: the cell was in the list when
\* the execution was called and was not when the completion was applied.
CompletedAfterDelete(op) ==
    /\ IsCompletion(op)
    /\ op.timer.target # <<>>
    /\ CellsWithId(op.before.cells, op.timer.cellId) = {}

\* C31: when a cell is deleted while one of its executions is in flight,
\* applying the completion of that execution leaves the cell list as it was:
\* the deleted cell does not come back and no other cell is changed.
C31_CompletionAfterDeleteIsNoOp ==
    CompletedAfterDelete(lastOp)
       => /\ cells = lastOp.before.cells
          /\ lastOp.timer.cellId \notin CellIds(cells)

\* C31 witness: the completion of an execution of a cell deleted while it was
\* running has just been applied, the list holds the other cells as they
\* were and an execution of one of them is still in flight.
C31_Witness ==
    /\ CompletedAfterDelete(lastOp)
    /\ StatusOf(lastOp.timer.target[1]) # "running"
    /\ cells # <<>>
    /\ cells = lastOp.before.cells
    /\ lastOp.timer.cellId \notin CellIds(cells)
    /\ \E c \in Range(cells) : InFlight(timers, c.id) # {}

====
